---- MODULE Spec2Model ----
(***************************************************************************)
(* Chat completion binding of openai-api (src/apis/chat.rs).               *)
(*                                                                         *)
(* The module models the ChatBody request structure with its serde         *)
(* attributes, the serialize_f32_two_decimals hook, and the four lines of  *)
(* ChatApi::chat_completion_create for OpenAI, run by several callers      *)
(* that share one client handle.                                           *)
(*                                                                         *)
(* Value conventions                                                       *)
(*   Option<T>       a sequence of length 0 (None) or 1 (Some(v))          *)
(*   f32             [k, n]: k = "fin" is the real number n / Grid,        *)
(*                   k = "nan" is NaN, k = "inf" is n * infinity           *)
(*   serde_json      [t |-> "null"], [t |-> "bool", b], [t |-> "string",   *)
(*   Value           s], [t |-> "number", num, den] (the number num/den),  *)
(*                   [t |-> "array", items], [t |-> "object", members]     *)
(***************************************************************************)
EXTENDS Integers, Sequences, FiniteSets, TLC

VARIABLES openai, chat_body, pc, request_body, reply, res, completion,
          result, sent, events

vars == <<openai, chat_body, pc, request_body, reply, res, completion,
          result, sent, events>>

(***************************************************************************)
(* Bounds of the model.                                                    *)
(***************************************************************************)
\* number of invocations of chat_completion_create sharing the handle
NCalls == 2
\* an f32 input is n / Grid
Grid == 10000
\* longest messages vector enumerated for the encoder
MaxMsgs == 3
\* the documented range of the penalties: "Number between -2.0 and 2.0"
FloatRange == 2

Calls == 1..NCalls

None == <<>>
Some(v) == <<v>>
Option(S) == {None} \cup {Some(v) : v \in S}

(***************************************************************************)
(* serde_json::Value                                                       *)
(***************************************************************************)
JNull == [t |-> "null"]
JBool(b) == [t |-> "bool", b |-> b]
JString(s) == [t |-> "string", s |-> s]
JNumber(num, den) == [t |-> "number", num |-> num, den |-> den]
JArray(items) == [t |-> "array", items |-> items]
JObject(members) == [t |-> "object", members |-> members]

(***************************************************************************)
(* f32 values and f64::round                                               *)
(***************************************************************************)
Fin(n) == [k |-> "fin", n |-> n]
NaN == [k |-> "nan", n |-> 0]
PosInf == [k |-> "inf", n |-> 1]
NegInf == [k |-> "inf", n |-> -1]
IsFinite(v) == v.k = "fin"

Abs(i) == IF i < 0 THEN -i ELSE i

\* f64::trunc of the rational num / den (den > 0): the fraction is dropped
RoundTruncates(num, den) ==
    IF num >= 0 THEN num \div den ELSE -((-num) \div den)

\* f64::round of the rational num / den (den > 0): nearest integer, a tie
\* goes away from zero.
Round(num, den) ==
    IF num >= 0 THEN (2 * num + den) \div (2 * den)
                ELSE -((2 * (-num) + den) \div (2 * den))

\* serde_json's Serializer::serialize_f64 into a Value: Value::from(f64),
\* which is Value::Null for a float that is not finite.  The argument is
\* the float hundredths / 100 (finite) or a non-finite f32 carried through
\* the arithmetic of line 17 (NaN and the infinities are fixed points of
\* "* 100.0", round and "/ 100.0").
serialize_f64(v, hundredths) ==
    IF IsFinite(v) THEN JNumber(hundredths, 100) ELSE JNull

\* line 17: (*v as f64 * 100.0).round() / 100.0; an f32 has a 24-bit
\* significand, so its product with 100.0 is exact in f64 and round sees the
\* real number v * 100.
serialize_f32_two_decimals(value) ==
    IF value # None
      THEN serialize_f64(value[1], Round(value[1].n * 100, Grid))
      ELSE JNull

(***************************************************************************)
(* Message (crate::Message, crate::Role)                                   *)
(***************************************************************************)
Roles == {"System", "Assistant", "User"}

RoleWire(r) ==
    CASE r = "System" -> "system"
      [] r = "Assistant" -> "assistant"
      [] r = "User" -> "user"

MessageToValue(m) ==
    JObject([key \in {"role", "content"} |->
               IF key = "role" THEN JString(RoleWire(m.role))
                               ELSE JString(m.content)])

(***************************************************************************)
(* ChatBody and its derived Serialize                                      *)
(***************************************************************************)
RequiredKeys == {"model", "messages"}
FloatKeys == {"temperature", "top_p", "presence_penalty", "frequency_penalty"}
OptionalKeys == FloatKeys \cup
                {"n", "stream", "stop", "max_tokens", "logit_bias", "user"}

\* a field without the skip attribute is always emitted
NeverSkips(field) == FALSE

\* #[serde(skip_serializing_if = "Option::is_none")]
skip_serializing_if(field) == field = None

\* an array holding the latest message alone
LastMessageOnly(messages) ==
    JArray(IF messages = <<>> THEN <<>>
           ELSE <<MessageToValue(messages[Len(messages)])>>)

\* Vec<Message>: a JSON array, element by element
MessagesToValue(messages) ==
    JArray([i \in 1..Len(messages) |-> MessageToValue(messages[i])])

FieldToValue(key, body) ==
    CASE key = "model" -> JString(body.model)
      [] key = "messages" -> MessagesToValue(body.messages)
      [] key \in FloatKeys -> serialize_f32_two_decimals(body[key])
      [] key \in {"n", "max_tokens"} ->
            IF body[key] = None THEN JNull ELSE JNumber(body[key][1], 1)
      [] key = "stream" ->
            IF body.stream = None THEN JNull ELSE JBool(body.stream[1])
      [] key = "stop" ->
            IF body.stop = None THEN JNull
            ELSE JArray([i \in 1..Len(body.stop[1]) |->
                           JString(body.stop[1][i])])
      [] key = "logit_bias" ->
            IF body.logit_bias = None THEN JNull
            ELSE JObject([tok \in DOMAIN body.logit_bias[1] |->
                            JString(body.logit_bias[1][tok])])
      [] key = "user" ->
            IF body.user = None THEN JNull ELSE JString(body.user[1])

\* serde_json::to_value(chat_body): the derived Serialize of ChatBody
ChatBodyToValue(body) ==
    JObject([key \in RequiredKeys \cup
                     {o \in OptionalKeys : ~skip_serializing_if(body[o])}
               |-> FieldToValue(key, body)])


(***************************************************************************)
(* Request bodies a caller may build                                       *)
(***************************************************************************)
Message(role, content) == [role |-> role, content |-> content]

\* the body of tests::test_chat_completion
TestBody ==
    [model |-> "gpt-3.5-turbo",
     messages |-> <<Message("User", "Hello!")>>,
     temperature |-> Some(Fin(0)),
     top_p |-> Some(Fin(0)),
     n |-> Some(2),
     stream |-> Some(FALSE),
     stop |-> None,
     max_tokens |-> Some(7),
     presence_penalty |-> None,
     frequency_penalty |-> None,
     logit_bias |-> None,
     user |-> None]

\* a conversation of three turns, every optional field unset
TalkBody ==
    [model |-> "gpt-4",
     messages |-> <<Message("System", "Be brief."), Message("User", "Hello!"),
                    Message("Assistant", "Hi.")>>,
     temperature |-> None,
     top_p |-> None,
     n |-> None,
     stream |-> None,
     stop |-> None,
     max_tokens |-> None,
     presence_penalty |-> None,
     frequency_penalty |-> None,
     logit_bias |-> None,
     user |-> None]

\* temperature: Some(f32::NAN)
NaNBody == [TestBody EXCEPT !.temperature = Some(NaN)]

\* the bodies the callers of chat_completion_create pass
Bodies == {TestBody, NaNBody}

\* every combination of set and unset optional fields
KeyBodies ==
    [model : {"gpt-3.5-turbo"},
     messages : {<<Message("User", "Hello!")>>},
     temperature : Option({Fin(0), NaN}),
     top_p : Option({Fin(0)}),
     n : Option({0, 2}),
     stream : Option({FALSE, TRUE}),
     stop : Option({<<"\n", "END">>}),
     max_tokens : Option({0, 7}),
     presence_penalty : Option({Fin(-FloatRange * Grid)}),
     frequency_penalty : Option({PosInf}),
     logit_bias : Option({[tok \in {"50256"} |-> "-100"]}),
     user : Option({"user-1"})]

\* every float of the grid in [-FloatRange, FloatRange], in each rounded field
RoundBodies ==
    {[TestBody EXCEPT ![key] = Some(Fin(n))] :
        key \in FloatKeys, n \in (-FloatRange * Grid)..(FloatRange * Grid)}

Messages == {Message(r, t) : r \in Roles, t \in {"Hello!", ""}}

\* every messages vector of at most MaxMsgs messages
MsgBodies ==
    {[TalkBody EXCEPT !.messages = ms] :
        ms \in UNION {[1..len -> Messages] : len \in 0..MaxMsgs}}

EncBodies == KeyBodies \cup RoundBodies \cup MsgBodies

(***************************************************************************)
(* Completion (super::completions::Completion) and its Deserialize         *)
(***************************************************************************)
WireRoles == {RoleWire(r) : r \in Roles}

RoleFromWire(s) == CHOOSE r \in Roles : RoleWire(r) = s

IsString(v) == v.t = "string"

MessageDecodes(v) ==
    /\ v.t = "object"
    /\ {"role", "content"} \subseteq DOMAIN v.members
    /\ IsString(v.members["role"])
    /\ v.members["role"].s \in WireRoles
    /\ IsString(v.members["content"])

ChoiceDecodes(v) ==
    /\ v.t = "object"
    /\ ("message" \in DOMAIN v.members
          => MessageDecodes(v.members["message"]))

ChoiceFromValue(v) ==
    [message |->
       IF "message" \in DOMAIN v.members
         THEN Some(Message(RoleFromWire(v.members["message"].members["role"].s),
                           v.members["message"].members["content"].s))
         ELSE None]

CompletionDecodes(v) ==
    /\ v.t = "object"
    /\ "choices" \in DOMAIN v.members
    /\ v.members["choices"].t = "array"
    /\ \A i \in 1..Len(v.members["choices"].items) :
          ChoiceDecodes(v.members["choices"].items[i])

\* serde_json::from_value::<Completion>(v)
FromValue(v) ==
    IF CompletionDecodes(v)
      THEN [ok |-> TRUE,
            value |-> Some([choices |->
               [i \in 1..Len(v.members["choices"].items) |->
                  ChoiceFromValue(v.members["choices"].items[i])]])]
      ELSE [ok |-> FALSE, value |-> None]

(***************************************************************************)
(* The collaborator: OpenAI handle and Requests::post                      *)
(***************************************************************************)
CHAT_COMPLETION_CREATE == "chat/completions"

OpenAIHandle == [api_url |-> "https://api.openai.com/v1/", auth |-> "Bearer"]

JMessage(role, content) ==
    JObject([key \in {"role", "content"} |->
               IF key = "role" THEN JString(role) ELSE JString(content)])

JChoice(role, content) ==
    JObject([key \in {"message"} |-> JMessage(role, content)])

JChoiceNoMessage == JObject([key \in {"index"} |-> JNumber(0, 1)])

JChoices(items) == JObject([key \in {"choices"} |-> JArray(items)])

RespTwo == JChoices(<<JChoice("assistant", "Hello there!"),
                      JChoice("assistant", "Hello! How can I help?")>>)
RespNoMessage == JChoices(<<JChoiceNoMessage, JChoice("assistant", "Hello!")>>)
RespEmpty == JChoices(<<>>)
RespMissingChoices == JObject([key \in {"id"} |-> JString("chatcmpl-1")])

Responses == {RespTwo, RespNoMessage, RespEmpty, RespMissingChoices}

TransportErrors == {[kind |-> "RequestError", msg |-> "connection refused"],
                    [kind |-> "ApiError", msg |-> "status 401"]}

\* ApiResult<Json> as post returns it
PostOkResult(v) == [ok |-> TRUE, value |-> Some(v), error |-> None]
PostErrResult(e) == [ok |-> FALSE, value |-> None, error |-> Some(e)]

\* ApiResult<Completion> as chat_completion_create returns it
Pending == [kind |-> "Pending", completion |-> None, error |-> None]
Ok(v) == [kind |-> "Ok", completion |-> Some(v), error |-> None]
Err(e) == [kind |-> "Err", completion |-> None, error |-> Some(e)]


(***************************************************************************)
(* chat_completion_create, line by line                                    *)
(*                                                                         *)
(* pc[c]: "idle" (not yet invoked), "encode" (before line 100), "post"     *)
(* (before line 101), "decode" (before line 102), "return" (before line    *)
(* 103), "returned" (a value was delivered to the caller), "panicked"      *)
(* (an unwrap unwound the caller's thread).                                *)
(* events[c] lists what the invocation has done; sent[c] lists the         *)
(* requests that reached the collaborator's post on its behalf.            *)
(***************************************************************************)
Finished(c) == pc[c] \in {"returned", "panicked"}

\* a caller invokes openai.chat_completion_create(&body)
Invoke(c, body) ==
    /\ pc[c] = "idle"
    /\ chat_body' = [chat_body EXCEPT ![c] = Some(body)]
    /\ pc' = [pc EXCEPT ![c] = "encode"]
    /\ UNCHANGED <<openai, request_body, reply, res, completion, result,
                   sent, events>>

\* a request buffer shared between invocations
ToValueStepSharedBuffer(c) ==
    /\ pc[c] = "encode"
    /\ request_body' =
         [request_body EXCEPT ![c] =
            IF \E d \in Calls : request_body[d] # None
              THEN request_body[CHOOSE d \in Calls : request_body[d] # None]
              ELSE Some(ChatBodyToValue(chat_body[c][1]))]
    /\ events' = [events EXCEPT ![c] = Append(@, "encode")]
    /\ pc' = [pc EXCEPT ![c] = "post"]
    /\ UNCHANGED <<openai, chat_body, reply, res, completion, result, sent>>

\* line 100: serde_json::to_value(chat_body).unwrap(); to_value has no error
\* to return for a ChatBody (every map key is a string, a float that is not
\* finite becomes null), so unwrap never panics here
ToValueStep(c) ==
    /\ pc[c] = "encode"
    /\ request_body' =
         [request_body EXCEPT ![c] = Some(ChatBodyToValue(chat_body[c][1]))]
    /\ events' = [events EXCEPT ![c] = Append(@, "encode")]
    /\ pc' = [pc EXCEPT ![c] = "post"]
    /\ UNCHANGED <<openai, chat_body, reply, res, completion, result, sent>>

\* self.post(CHAT_COMPLETION_CREATE, request_body) answered with r
Post(c, r) ==
    /\ sent' = [sent EXCEPT ![c] =
                  Append(@, [path |-> CHAT_COMPLETION_CREATE,
                             body |-> request_body[c][1]])]
    /\ reply' = [reply EXCEPT ![c] = Some(r)]
    /\ events' = [events EXCEPT ![c] = Append(@, "post")]

\* line 101, post returned Ok(value)
PostOk(c) ==
    /\ pc[c] = "post"
    /\ \E v \in Responses :
          /\ Post(c, PostOkResult(v))
          /\ res' = [res EXCEPT ![c] = Some(v)]
    /\ pc' = [pc EXCEPT ![c] = "decode"]
    /\ UNCHANGED <<openai, chat_body, request_body, completion, result>>

\* a failed post answered with a default Completion
PostErrSwallowed(c) ==
    /\ pc[c] = "post"
    /\ \E e \in TransportErrors :
          /\ Post(c, PostErrResult(e))
          /\ result' = [result EXCEPT ![c] = Ok([choices |-> <<>>])]
    /\ pc' = [pc EXCEPT ![c] = "returned"]
    /\ UNCHANGED <<openai, chat_body, request_body, res, completion>>

\* a failed post tried once more before the error is returned
PostErrRetries(c) ==
    /\ pc[c] = "post"
    /\ \E e \in TransportErrors :
          /\ sent' = [sent EXCEPT ![c] =
                        @ \o <<[path |-> CHAT_COMPLETION_CREATE,
                                body |-> request_body[c][1]],
                               [path |-> CHAT_COMPLETION_CREATE,
                                body |-> request_body[c][1]]>>]
          /\ reply' = [reply EXCEPT ![c] = Some(PostErrResult(e))]
          /\ events' = [events EXCEPT ![c] = @ \o <<"post", "post">>]
          /\ result' = [result EXCEPT ![c] = Err(e)]
    /\ pc' = [pc EXCEPT ![c] = "returned"]
    /\ UNCHANGED <<openai, chat_body, request_body, res, completion>>

\* line 101, post returned Err(e): the ? operator returns Err(e) at once
PostErr(c) ==
    /\ pc[c] = "post"
    /\ \E e \in TransportErrors :
          /\ Post(c, PostErrResult(e))
          /\ result' = [result EXCEPT ![c] = Err(e)]
    /\ pc' = [pc EXCEPT ![c] = "returned"]
    /\ UNCHANGED <<openai, chat_body, request_body, res, completion>>

\* a decoder that keeps the first choice only
DecodeOkFirstChoice(c) ==
    /\ pc[c] = "decode"
    /\ FromValue(res[c][1]).ok
    /\ completion' =
         [completion EXCEPT ![c] =
            LET all == FromValue(res[c][1]).value[1].choices
            IN Some([choices |-> IF all = <<>> THEN <<>> ELSE <<all[1]>>])]
    /\ events' = [events EXCEPT ![c] = Append(@, "decode")]
    /\ pc' = [pc EXCEPT ![c] = "return"]
    /\ UNCHANGED <<openai, chat_body, request_body, reply, res, result, sent>>

\* line 102, from_value(res.clone()) is Ok(completion)
DecodeOk(c) ==
    /\ pc[c] = "decode"
    /\ FromValue(res[c][1]).ok
    /\ completion' = [completion EXCEPT ![c] = FromValue(res[c][1]).value]
    /\ events' = [events EXCEPT ![c] = Append(@, "decode")]
    /\ pc' = [pc EXCEPT ![c] = "return"]
    /\ UNCHANGED <<openai, chat_body, request_body, reply, res, result, sent>>

\* line 102, from_value(res.clone()) is Err: unwrap panics
DecodePanic(c) ==
    /\ pc[c] = "decode"
    /\ ~FromValue(res[c][1]).ok
    /\ events' = [events EXCEPT ![c] = Append(@, "decode")]
    /\ pc' = [pc EXCEPT ![c] = "panicked"]
    /\ UNCHANGED <<openai, chat_body, request_body, reply, res, completion,
                   result, sent>>

\* line 103: Ok(completion)
ReturnOk(c) ==
    /\ pc[c] = "return"
    /\ result' = [result EXCEPT ![c] = Ok(completion[c][1])]
    /\ pc' = [pc EXCEPT ![c] = "returned"]
    /\ UNCHANGED <<openai, chat_body, request_body, reply, res, completion,
                   sent, events>>

(***************************************************************************)
(* Specifications                                                          *)
(***************************************************************************)
NoCalls ==
    /\ openai = OpenAIHandle
    /\ request_body = [c \in Calls |-> None]
    /\ reply = [c \in Calls |-> None]
    /\ res = [c \in Calls |-> None]
    /\ completion = [c \in Calls |-> None]
    /\ result = [c \in Calls |-> Pending]
    /\ sent = [c \in Calls |-> <<>>]
    /\ events = [c \in Calls |-> <<>>]

\* callers sharing one handle, none of them inside the call yet
Init ==
    /\ NoCalls
    /\ chat_body = [c \in Calls |-> None]
    /\ pc = [c \in Calls |-> "idle"]

Next ==
    \E c \in Calls :
        \/ \E body \in Bodies : Invoke(c, body)
        \/ ToValueStep(c)
        \/ PostOk(c)
        \/ PostErr(c)
        \/ DecodeOk(c)
        \/ DecodePanic(c)
        \/ ReturnOk(c)

Spec == Init /\ [][Next]_vars

\* the encoder alone: one caller is about to run line 100 on a body drawn
\* from EncBodies
InitEncode ==
    /\ NoCalls
    /\ \E body \in EncBodies :
          chat_body = [c \in Calls |-> IF c = 1 THEN Some(body) ELSE None]
    /\ pc = [c \in Calls |-> IF c = 1 THEN "encode" ELSE "idle"]

NextEncode == \E c \in Calls : ToValueStep(c)

SpecEncode == InitEncode /\ [][NextEncode]_vars


(***************************************************************************)
(* Properties                                                              *)
(***************************************************************************)
Encoded(c) == request_body[c] # None
Payload(c) == request_body[c][1].members
Body(c) == chat_body[c][1]

\* C1: the key set of the encoded object is exactly {model, messages} plus
\* the optional fields that are Some, whatever their value; a None field has
\* no key at all; the body of test_chat_completion encodes to exactly the
\* keys model, messages, max_tokens, temperature, top_p, n, stream.
C1_KeySet ==
    \A c \in Calls :
        Encoded(c) =>
            /\ request_body[c][1].t = "object"
            /\ DOMAIN Payload(c) =
                 RequiredKeys \cup {o \in OptionalKeys : Body(c)[o] # None}
            /\ (Body(c) = TestBody =>
                  DOMAIN Payload(c) =
                    {"model", "messages", "max_tokens", "temperature",
                     "top_p", "n", "stream"})

\* the test's body has been encoded, with its zeros and its false emitted
C1_Witness ==
    \E c \in Calls :
        /\ Encoded(c)
        /\ Body(c) = TestBody
        /\ Payload(c)["temperature"] = JNumber(0, 100)
        /\ Payload(c)["stream"] = JBool(FALSE)
        /\ "stop" \notin DOMAIN Payload(c)

InRange(v) == IsFinite(v) /\ Abs(v.n) <= FloatRange * Grid

\* e is the JSON number k/100 with k the integer nearest to 100 * n / Grid,
\* the one farther from zero when two are equally near
IsTwoDecimalsOf(e, n) ==
    /\ e.t = "number"
    /\ e.den = 100
    /\ 2 * Abs(e.num * Grid - 100 * n) <= Grid
    /\ (2 * Abs(e.num * Grid - 100 * n) = Grid =>
          Abs(e.num * Grid) > Abs(100 * n))

\* C2: a value v in [-2.0, 2.0] of temperature, top_p, presence_penalty or
\* frequency_penalty is encoded as the JSON number round(v * 100) / 100, the
\* same function of v for the four fields with ties rounded one way, and the
\* fields that are not rounded keep their values.
C2_Rounding ==
    \A c \in Calls :
        Encoded(c) =>
            /\ \A key \in FloatKeys :
                  (Body(c)[key] # None /\ InRange(Body(c)[key][1])) =>
                      IsTwoDecimalsOf(Payload(c)[key], Body(c)[key][1].n)
            /\ \A k1, k2 \in FloatKeys :
                  (Body(c)[k1] # None /\ Body(c)[k1] = Body(c)[k2]) =>
                      Payload(c)[k1] = Payload(c)[k2]
            /\ \A key \in {"n", "max_tokens"} :
                  Body(c)[key] # None =>
                      Payload(c)[key] = JNumber(Body(c)[key][1], 1)
            /\ (Body(c).stream # None =>
                  Payload(c)["stream"] = JBool(Body(c).stream[1]))
            /\ Payload(c)["model"] = JString(Body(c).model)

\* 0.8333 was encoded as 0.83 in a field of a body whose max_tokens is still 7
C2_Witness ==
    \E c \in Calls :
        /\ Encoded(c)
        /\ Grid = 10000
        /\ Body(c).presence_penalty = Some(Fin(8333))
        /\ Payload(c)["presence_penalty"] = JNumber(83, 100)
        /\ Payload(c)["max_tokens"] = JNumber(7, 1)

\* C9: N messages are encoded as an array of exactly N objects, the i-th
\* carrying the role and the content of the i-th message.
C9_Messages ==
    \A c \in Calls :
        Encoded(c) =>
            LET arr == Payload(c)["messages"]
                ms == Body(c).messages
            IN /\ arr.t = "array"
               /\ Len(arr.items) = Len(ms)
               /\ \A i \in 1..Len(ms) :
                     /\ arr.items[i].t = "object"
                     /\ DOMAIN arr.items[i].members = {"role", "content"}
                     /\ arr.items[i].members["role"] =
                          JString(RoleWire(ms[i].role))
                     /\ arr.items[i].members["content"] =
                          JString(ms[i].content)

\* three different messages were encoded
C9_Witness ==
    \E c \in Calls :
        /\ Encoded(c)
        /\ Body(c).messages = <<Message("System", ""), Message("User", "Hello!"),
                                Message("Assistant", "")>>
        /\ Len(Payload(c)["messages"].items) = 3

PostFailed(c) == reply[c] # None /\ ~reply[c][1].ok
PostSucceeded(c) == reply[c] # None /\ reply[c][1].ok

\* C3: when post reports a failure the call returns that error unchanged, no
\* Completion, without decoding anything and without a second request.
C3_TransportFailure ==
    \A c \in Calls :
        PostFailed(c) =>
            /\ pc[c] = "returned"
            /\ result[c].kind = "Err"
            /\ result[c].error = reply[c][1].error
            /\ result[c].completion = None
            /\ completion[c] = None
            /\ events[c] = <<"encode", "post">>
            /\ Len(sent[c]) = 1

\* a post has failed with status 401
C3_Witness ==
    \E c \in Calls :
        /\ PostFailed(c)
        /\ reply[c][1].error[1].kind = "ApiError"
        /\ pc[c] = "returned"

\* C4: a response that does not match the Completion shape makes the call
\* return a DecodingError.
C4_DecodingError ==
    \A c \in Calls :
        (Finished(c) /\ PostSucceeded(c)
                     /\ ~CompletionDecodes(reply[c][1].value[1])) =>
            /\ pc[c] = "returned"
            /\ result[c].kind = "Err"
            /\ result[c].error[1].kind = "DecodingError"

HasNonFinite(body) ==
    \E key \in FloatKeys : body[key] # None /\ ~IsFinite(body[key][1])

\* C5: a body with a float that is not finite is not encoded: the call ends
\* with an EncodingError and no payload for it reaches post.
C5_EncodingError ==
    \A c \in Calls :
        (chat_body[c] # None /\ HasNonFinite(Body(c))) =>
            /\ sent[c] = <<>>
            /\ (Finished(c) =>
                  /\ pc[c] = "returned"
                  /\ result[c].kind = "Err"
                  /\ result[c].error[1].kind = "EncodingError")

IsPrefix(s, t) == Len(s) <= Len(t) /\ \A i \in 1..Len(s) : s[i] = t[i]

\* C6: an invocation posts exactly once, to CHAT_COMPLETION_CREATE, after
\* the encoding and before any decoding, on every path it can take.
C6_ExactlyOnePost ==
    \A c \in Calls :
        /\ IsPrefix(events[c], <<"encode", "post", "decode">>)
        /\ Len(sent[c]) = Cardinality({i \in 1..Len(events[c]) :
                                         events[c][i] = "post"})
        /\ \A i \in 1..Len(sent[c]) : sent[c][i].path = CHAT_COMPLETION_CREATE
        /\ (Finished(c) => Len(sent[c]) = 1)
        /\ (pc[c] \in {"idle", "encode", "post"} => sent[c] = <<>>)

\* one invocation returned a Completion and another died decoding, each
\* after one post
C6_Witness ==
    \E c, d \in Calls :
        /\ pc[c] = "returned" /\ result[c].kind = "Ok" /\ Len(sent[c]) = 1
        /\ pc[d] = "panicked" /\ Len(sent[d]) = 1

\* C7: an invocation ends by returning a Completion or one typed error, and
\* in no other way.
C7_TwoOutcomes ==
    \A c \in Calls :
        /\ pc[c] # "panicked"
        /\ (pc[c] = "returned" => result[c].kind \in {"Ok", "Err"})

\* C8: a response that matches the Completion shape is returned as Ok with
\* as many choices as the response has, in the same order, each with the
\* message of its array element.
C8_DecodedCompletion ==
    \A c \in Calls :
        (Finished(c) /\ PostSucceeded(c)
                     /\ CompletionDecodes(reply[c][1].value[1])) =>
            /\ pc[c] = "returned"
            /\ result[c].kind = "Ok"
            /\ LET items == reply[c][1].value[1].members["choices"].items
                   choices == result[c].completion[1].choices
               IN /\ Len(choices) = Len(items)
                  /\ \A i \in 1..Len(items) :
                        IF "message" \in DOMAIN items[i].members
                          THEN /\ choices[i].message # None
                               /\ JString(RoleWire(choices[i].message[1].role))
                                    = items[i].members["message"].members["role"]
                               /\ JString(choices[i].message[1].content)
                                    = items[i].members["message"].members["content"]
                          ELSE choices[i].message = None

\* the response with two different choices was returned
C8_Witness ==
    \E c \in Calls :
        /\ pc[c] = "returned"
        /\ reply[c] = Some(PostOkResult(RespTwo))
        /\ Len(result[c].completion[1].choices) = 2

\* what an invocation delivers, from the reply to its own post
OwnOutcome(c) ==
    IF ~reply[c][1].ok THEN pc[c] = "returned" /\ result[c].kind = "Err"
                            /\ result[c].error = reply[c][1].error
    ELSE IF CompletionDecodes(reply[c][1].value[1])
      THEN pc[c] = "returned" /\ result[c].kind = "Ok"
           /\ result[c].completion = FromValue(reply[c][1].value[1]).value
      ELSE pc[c] = "panicked" /\ result[c] = Pending

Isolated ==
    /\ openai = OpenAIHandle
    /\ \A c \in Calls :
          /\ Encoded(c) => request_body[c][1] = ChatBodyToValue(Body(c))
          /\ \A i \in 1..Len(sent[c]) : sent[c][i].body = request_body[c][1]
          /\ Finished(c) => OwnOutcome(c)
    /\ \A c, d \in Calls :
          (Finished(c) /\ Finished(d) /\ chat_body[c] = chat_body[d]
                       /\ reply[c] = reply[d]) =>
              /\ sent[c] = sent[d]
              /\ result[c] = result[d]
              /\ pc[c] = pc[d]

\* C10: invocations sharing the handle, in any order or interleaving, leave
\* the handle and the caller's body as they were, and each sends the
\* encoding of its own body and delivers what the reply to its own post
\* decides.
C10_Isolation ==
    [][/\ openai' = openai
       /\ \A c \in Calls : chat_body[c] # None => chat_body'[c] = chat_body[c]
       /\ Isolated']_vars

\* an invocation returned a Completion for its body and another, given a
\* different body, returned a transport error
C10_Witness ==
    \E c, d \in Calls :
        /\ chat_body[c] # None /\ chat_body[d] # None
        /\ chat_body[c] # chat_body[d]
        /\ pc[c] = "returned" /\ result[c].kind = "Ok"
        /\ pc[d] = "returned" /\ result[d].kind = "Err"
        /\ sent[c][1].body # sent[d][1].body

====
